---- MODULE Spec2Model ----
(***************************************************************************)
(* Port-25 connectivity check of BrandNavEmailVerifier2.0                  *)
(* (functions/verifier/utils/checkPort25.js, here src/unnamed/part_001).   *)
(*                                                                         *)
(* The model has one async flow, checkPort25Connectivity, which probes the *)
(* five fixed targets one after the other with testSingleHost.  Each probe *)
(* owns one net.Socket; the socket's events (connect, data, timeout,       *)
(* error, close) are the environment's moves, and each event runs the      *)
(* handler testSingleHost registered for it.                               *)
(*                                                                         *)
(* Specifications: Spec (one run of the check), LiveSpec (the same with    *)
(* fairness), ProbeSpec (testSingleHost called directly), MockSpec         *)
(* (testSingleHost on a socket emitting in any order), ClassifySpec        *)
(* (classifyPort25Error called directly), DashSpec (DashboardLayout, the   *)
(* consumer of the check's report).                                        *)
(*                                                                         *)
(* JavaScript strings the code inspects (banner chunks, error messages,    *)
(* reasons, recommendation texts) are sequences of one-character strings,  *)
(* so that trim(), startsWith() and includes() are computed and not        *)
(* assumed.  Strings the code only copies (host names, provider labels,    *)
(* error codes) are TLA+ strings.                                          *)
(***************************************************************************)
EXTENDS Integers, Sequences, FiniteSets, TLC

VARIABLES
    pc,              \* position of checkPort25Connectivity: "start", "await", "done", "threw";
                     \* "direct" when testSingleHost is called on its own
    idx,             \* index in testTargets of the target of the current iteration
    attemptedHosts,  \* const attemptedHosts = []
    errors,          \* const errors = []
    checkStart,      \* const startTime = Date.now()   (checkPort25Connectivity)
    probes,          \* per target: the closure and socket of its testSingleHost call
    report,          \* the value checkPort25Connectivity resolved with
    now,             \* the value Date.now() returns
    rawError,        \* the error a direct caller passes to classifyPort25Error
    outcomes,        \* what the direct calls of classifyPort25Error have produced
    mounted,           \* DashboardLayout: the mount effect has run
    port25Status,      \* useState<Port25Status>('unknown')
    isCheckingPort25,  \* useState(false)
    showWarningBanner, \* useState(false)
    warningMessage,    \* useState('')
    lastCheck,         \* history: how the most recently completed check ended:
                       \* "none", "open", "closed", "failed"
    dismissedSince,    \* history: the banner was dismissed after that check ended
    checks             \* history: the number of checks started

\* The state of the dashboard component
dashboard ==
    <<mounted, port25Status, isCheckingPort25, showWarningBanner, warningMessage,
      lastCheck, dismissedSince, checks>>

vars == <<pc, idx, attemptedHosts, errors, checkStart, probes, report, now,
          rawError, outcomes, dashboard>>

\* The dashboard before it is mounted
DashboardIdle ==
    /\ mounted = FALSE
    /\ port25Status = "unknown"
    /\ isCheckingPort25 = FALSE
    /\ showWarningBanner = FALSE
    /\ warningMessage = <<>>
    /\ lastCheck = "none"
    /\ dismissedSince = FALSE
    /\ checks = 0

----------------------------------------------------------------------------
(* Text primitives *)

Whitespace == {" ", "\t", "\r", "\n"}

RECURSIVE TrimStart(_)
TrimStart(s) ==
    IF s # <<>> /\ Head(s) \in Whitespace THEN TrimStart(Tail(s)) ELSE s

RECURSIVE TrimEnd(_)
TrimEnd(s) ==
    IF s # <<>> /\ s[Len(s)] \in Whitespace
    THEN TrimEnd(SubSeq(s, 1, Len(s) - 1))
    ELSE s

\* String.prototype.trim
Trim(s) == TrimEnd(TrimStart(s))

\* String.prototype.startsWith
StartsWith(s, prefix) ==
    /\ Len(prefix) <= Len(s)
    /\ SubSeq(s, 1, Len(prefix)) = prefix

\* String.prototype.includes
Includes(s, needle) ==
    \E k \in 0..(Len(s) - Len(needle)) : SubSeq(s, k + 1, k + Len(needle)) = needle

----------------------------------------------------------------------------
(* Values *)

\* JavaScript null in a field that otherwise holds a host, provider or text constant
Null == "null"

\* JavaScript null in a field that otherwise holds inspected text
NullText == <<"null">>

\* JavaScript null in a field that otherwise holds a number of milliseconds
NullTime == -1

\* error.code of an error that has no code (undefined)
NoCode == "undefined"

MsgTimeout == <<"C","o","n","n","e","c","t","i","o","n"," ","t","i","m","e","o","u","t">>
MsgClosed == <<"C","o","n","n","e","c","t","i","o","n"," ","c","l","o","s","e","d"," ","w","i","t","h","o","u","t"," ","r","e","c","e","i","v","i","n","g"," ","S","M","T","P"," ","b","a","n","n","e","r">>
MsgInvalidPrefix == <<"I","n","v","a","l","i","d"," ","S","M","T","P"," ","b","a","n","n","e","r"," ","r","e","c","e","i","v","e","d",":"," ">>
NeedleTimeout == <<"t","i","m","e","o","u","t">>
BannerPrefix == <<"2","2","0">>

ReasonRefused == <<"C","o","n","n","e","c","t","i","o","n"," ","r","e","f","u","s","e","d"," ","-"," ","P","o","r","t"," ","2","5"," ","l","i","k","e","l","y"," ","b","l","o","c","k","e","d"," ","b","y"," ","f","i","r","e","w","a","l","l","/","I","S","P">>
ReasonTimeout == <<"C","o","n","n","e","c","t","i","o","n"," ","t","i","m","e","o","u","t"," ","-"," ","P","o","r","t"," ","2","5"," ","m","a","y"," ","b","e"," ","b","l","o","c","k","e","d"," ","o","r"," ","s","e","r","v","e","r"," ","u","n","a","v","a","i","l","a","b","l","e">>
ReasonUnreachable == <<"N","e","t","w","o","r","k"," ","u","n","r","e","a","c","h","a","b","l","e"," ","-"," ","C","h","e","c","k"," ","n","e","t","w","o","r","k"," ","c","o","n","f","i","g","u","r","a","t","i","o","n">>
ReasonDns == <<"D","N","S"," ","r","e","s","o","l","u","t","i","o","n"," ","f","a","i","l","e","d"," ","-"," ","S","e","r","v","e","r"," ","h","o","s","t","n","a","m","e"," ","n","o","t"," ","f","o","u","n","d">>
ReasonAddrInUse == <<"A","d","d","r","e","s","s"," ","i","n"," ","u","s","e"," ","-"," ","T","e","m","p","o","r","a","r","y"," ","i","s","s","u","e",","," ","r","e","t","r","y"," ","r","e","c","o","m","m","e","n","d","e","d">>
ReasonUnknown == <<"U","n","k","n","o","w","n"," ","e","r","r","o","r">>

RecBlocked == <<"P","o","r","t"," ","2","5"," ","i","s"," ","b","l","o","c","k","e","d"," ","b","y"," ","y","o","u","r"," ","n","e","t","w","o","r","k","/","I","S","P","."," ","C","o","n","s","i","d","e","r"," ","u","s","i","n","g"," ","a"," ","V","P","S"," ","o","r"," ","c","l","o","u","d"," ","s","e","r","v","e","r"," ","w","i","t","h"," ","p","o","r","t"," ","2","5"," ","a","c","c","e","s","s"," ","f","o","r"," ","e","m","a","i","l"," ","v","e","r","i","f","i","c","a","t","i","o","n",".">>
RecUnknown == <<"U","n","a","b","l","e"," ","t","o"," ","d","e","t","e","r","m","i","n","e"," ","p","o","r","t"," ","2","5"," ","s","t","a","t","u","s","."," ","S","o","m","e"," ","h","o","s","t","s"," ","r","e","t","u","r","n","e","d"," ","u","n","e","x","p","e","c","t","e","d"," ","e","r","r","o","r","s","."," ","C","h","e","c","k"," ","y","o","u","r"," ","n","e","t","w","o","r","k"," ","c","o","n","f","i","g","u","r","a","t","i","o","n",".">>
RecDns == <<"D","N","S"," ","o","r"," ","n","e","t","w","o","r","k"," ","i","s","s","u","e","s"," ","d","e","t","e","c","t","e","d","."," ","V","e","r","i","f","y"," ","y","o","u","r"," ","i","n","t","e","r","n","e","t"," ","c","o","n","n","e","c","t","i","o","n"," ","a","n","d"," ","D","N","S"," ","s","e","t","t","i","n","g","s",".">>
ErrAllFailed == "All connection attempts failed"
NeedleBlocked == <<"P","o","r","t"," ","2","5"," ","i","s"," ","b","l","o","c","k","e","d">>

\* An Error object: code (NoCode when absent), and message (hasMessage = FALSE
\* when the thrown value carries no message property)
MkError(code, message) == [code |-> code, hasMessage |-> TRUE, message |-> message]

NoError == [code |-> NoCode, hasMessage |-> FALSE, message |-> <<>>]

\* The value testSingleHost resolves with
MkResult(responseTime, banner) ==
    [success |-> TRUE, responseTime |-> responseTime, banner |-> banner]

NoResult == [success |-> FALSE, responseTime |-> NullTime, banner |-> NullText]

----------------------------------------------------------------------------
(* classifyPort25Error *)

\* errorMessage.includes('timeout') is evaluated only when the code is neither
\* ECONNREFUSED nor ETIMEDOUT; on a value without a message it throws a TypeError
\* Mutant: the message is defaulted to '' and the call never throws
ClassifyThrows_Never(error) == FALSE

ClassifyThrows(error) ==
    /\ error.code \notin {"ECONNREFUSED", "ETIMEDOUT"}
    /\ ~error.hasMessage

\* a || b on strings: b when a is undefined or empty
OrElseCode(code, fallback) == IF code = NoCode \/ code = "" THEN fallback ELSE code

OrElseText(hasText, text, fallback) == IF ~hasText \/ text = <<>> THEN fallback ELSE text

\* Mutant: the name-not-found rule is tested before the timeout rule
classifyPort25Error_DnsBeforeTimeout(error) ==
    LET errorCode == error.code
        errorMessage == error.message
    IN  IF errorCode = "ECONNREFUSED"
        THEN [blocked |-> "true", reason |-> ReasonRefused,
              severity |-> "high", errorCode |-> errorCode]
        ELSE IF errorCode = "ENOTFOUND"
        THEN [blocked |-> "false", reason |-> ReasonDns,
              severity |-> "low", errorCode |-> errorCode]
        ELSE IF errorCode = "ETIMEDOUT" \/ Includes(errorMessage, NeedleTimeout)
        THEN [blocked |-> "true", reason |-> ReasonTimeout,
              severity |-> "medium", errorCode |-> OrElseCode(errorCode, "TIMEOUT")]
        ELSE IF errorCode = "ENETUNREACH" \/ errorCode = "EHOSTUNREACH"
        THEN [blocked |-> "true", reason |-> ReasonUnreachable,
              severity |-> "high", errorCode |-> errorCode]
        ELSE IF errorCode = "EADDRINUSE"
        THEN [blocked |-> "false", reason |-> ReasonAddrInUse,
              severity |-> "low", errorCode |-> errorCode]
        ELSE [blocked |-> "unknown",
              reason |-> OrElseText(error.hasMessage, errorMessage, ReasonUnknown),
              severity |-> "medium", errorCode |-> OrElseCode(errorCode, "UNKNOWN")]

\* Mutant: the timeout rule looks at the code only
classifyPort25Error_TimeoutByCode(error) ==
    LET errorCode == error.code
        errorMessage == error.message
    IN  IF errorCode = "ECONNREFUSED"
        THEN [blocked |-> "true", reason |-> ReasonRefused,
              severity |-> "high", errorCode |-> errorCode]
        ELSE IF errorCode = "ETIMEDOUT"
        THEN [blocked |-> "true", reason |-> ReasonTimeout,
              severity |-> "medium", errorCode |-> OrElseCode(errorCode, "TIMEOUT")]
        ELSE IF errorCode = "ENETUNREACH" \/ errorCode = "EHOSTUNREACH"
        THEN [blocked |-> "true", reason |-> ReasonUnreachable,
              severity |-> "high", errorCode |-> errorCode]
        ELSE IF errorCode = "ENOTFOUND"
        THEN [blocked |-> "false", reason |-> ReasonDns,
              severity |-> "low", errorCode |-> errorCode]
        ELSE IF errorCode = "EADDRINUSE"
        THEN [blocked |-> "false", reason |-> ReasonAddrInUse,
              severity |-> "low", errorCode |-> errorCode]
        ELSE [blocked |-> "unknown",
              reason |-> OrElseText(error.hasMessage, errorMessage, ReasonUnknown),
              severity |-> "medium", errorCode |-> OrElseCode(errorCode, "UNKNOWN")]

classifyPort25Error(error) ==
    LET errorCode == error.code
        errorMessage == error.message
    IN  IF errorCode = "ECONNREFUSED"
        THEN [blocked |-> "true", reason |-> ReasonRefused,
              severity |-> "high", errorCode |-> errorCode]
        ELSE IF errorCode = "ETIMEDOUT" \/ Includes(errorMessage, NeedleTimeout)
        THEN [blocked |-> "true", reason |-> ReasonTimeout,
              severity |-> "medium", errorCode |-> OrElseCode(errorCode, "TIMEOUT")]
        ELSE IF errorCode = "ENETUNREACH" \/ errorCode = "EHOSTUNREACH"
        THEN [blocked |-> "true", reason |-> ReasonUnreachable,
              severity |-> "high", errorCode |-> errorCode]
        ELSE IF errorCode = "ENOTFOUND"
        THEN [blocked |-> "false", reason |-> ReasonDns,
              severity |-> "low", errorCode |-> errorCode]
        ELSE IF errorCode = "EADDRINUSE"
        THEN [blocked |-> "false", reason |-> ReasonAddrInUse,
              severity |-> "low", errorCode |-> errorCode]
        ELSE [blocked |-> "unknown",
              reason |-> OrElseText(error.hasMessage, errorMessage, ReasonUnknown),
              severity |-> "medium", errorCode |-> OrElseCode(errorCode, "UNKNOWN")]

----------------------------------------------------------------------------
(* testSingleHost: the closure of one call and the handlers it registers *)

\* The largest value of Date.now() the model lets the clock reach
MaxClock == 1

\* The state of one testSingleHost call.
\*   sock: "none" (not created), "connecting", "connected", "idle" (connect() threw:
\*         no connection, the timer is armed), "destroyed" (destroyed, 'close' not yet
\*         emitted), "closed" ('close' emitted)
\*   promise: "none", "pending", "fulfilled", "rejected"
\*   settledBy: the call that settled the promise: "banner", "invalid", "timeout",
\*         "error", "close", "throw"
\*   delivered: the chunks the socket has emitted as 'data' events
\*   timeoutArmed, destroyCalls, settleCalls, writeCalls: the number of calls of
\*         socket.setTimeout, socket.destroy, resolve/reject, socket.write
NoProbe ==
    [sock |-> "none", connected |-> FALSE, smtpBanner |-> <<>>, startTime |-> 0,
     delivered |-> <<>>,
     timeoutArmed |-> 0, destroyCalls |-> 0, settleCalls |-> 0, writeCalls |-> 0,
     promise |-> "none", settledBy |-> "none", value |-> NoResult, reason |-> NoError]

\* socket.destroy()
Destroy(p) ==
    [p EXCEPT !.destroyCalls = @ + 1,
              !.sock = IF @ \in {"none", "closed"} THEN @ ELSE "destroyed"]

\* resolve(value): settles a pending promise, has no effect on a settled one
Resolve(p, by, value) ==
    IF p.promise = "pending"
    THEN [p EXCEPT !.promise = "fulfilled", !.settledBy = by, !.value = value,
                   !.settleCalls = @ + 1]
    ELSE [p EXCEPT !.settleCalls = @ + 1]

\* Mutant: a later reject replaces the outcome
Reject_Overwrites(p, by, err) ==
    [p EXCEPT !.promise = "rejected", !.settledBy = by, !.reason = err,
              !.settleCalls = @ + 1]

\* reject(err): settles a pending promise, has no effect on a settled one
Reject(p, by, err) ==
    IF p.promise = "pending"
    THEN [p EXCEPT !.promise = "rejected", !.settledBy = by, !.reason = err,
                   !.settleCalls = @ + 1]
    ELSE [p EXCEPT !.settleCalls = @ + 1]

\* Mutant: the handler greets the peer and restarts the timer
OnConnect_Greets(p) ==
    [p EXCEPT !.connected = TRUE, !.writeCalls = @ + 1, !.timeoutArmed = @ + 1]

\* socket.on('connect', ...)
OnConnect(p) == [p EXCEPT !.connected = TRUE]

\* Mutant: the chunk is not trimmed
OnData_NoTrim(p, data, t) ==
    LET banner == data
        q == [p EXCEPT !.smtpBanner = banner]
    IN  IF StartsWith(banner, BannerPrefix)
        THEN Resolve(Destroy(q), "banner", MkResult(t - p.startTime, banner))
        ELSE Reject(Destroy(q), "invalid", MkError(NoCode, MsgInvalidPrefix \o banner))

\* Mutant: the else branch settles without socket.destroy()
OnData_NoDestroyOnInvalid(p, data, t) ==
    LET banner == Trim(data)
        q == [p EXCEPT !.smtpBanner = banner]
    IN  IF StartsWith(banner, BannerPrefix)
        THEN Resolve(Destroy(q), "banner", MkResult(t - p.startTime, banner))
        ELSE Reject(q, "invalid", MkError(NoCode, MsgInvalidPrefix \o banner))

\* socket.on('data', ...); data is the chunk as text (data.toString() of ASCII
\* bytes), t is Date.now()
OnData(p, data, t) ==
    LET banner == Trim(data)
        q == [p EXCEPT !.smtpBanner = banner]
    IN  IF StartsWith(banner, BannerPrefix)
        THEN Resolve(Destroy(q), "banner", MkResult(t - p.startTime, banner))
        ELSE Reject(Destroy(q), "invalid", MkError(NoCode, MsgInvalidPrefix \o banner))

\* Mutant: reject('Connection timeout'), a string, which has no code and no message
OnTimeout_RejectsString(p) == Reject(Destroy(p), "timeout", NoError)

\* Mutant: the error reads "Timed out"
OnTimeout_TimedOut(p) ==
    Reject(Destroy(p), "timeout", MkError(NoCode, <<"T","i","m","e","d"," ","o","u","t">>))

\* socket.on('timeout', ...)
OnTimeout(p) == Reject(Destroy(p), "timeout", MkError(NoCode, MsgTimeout))

\* Mutant: the handler rejects with a new error that keeps the message only
OnError_Wraps(p, err) == Reject(Destroy(p), "error", MkError(NoCode, err.message))

\* socket.on('error', ...)
OnError(p, err) == Reject(Destroy(p), "error", err)

\* Mutant: the handler does not look at connected
OnClose_AnyClose(p) ==
    IF p.smtpBanner = <<>>
    THEN Reject(p, "close", MkError(NoCode, MsgClosed))
    ELSE p

\* socket.on('close', ...)
OnClose(p) ==
    IF p.connected /\ p.smtpBanner = <<>>
    THEN Reject(p, "close", MkError(NoCode, MsgClosed))
    ELSE p

\* Mutant: socket.setTimeout(timeout) is missing
testSingleHost_NoTimer(t, connectThrows, thrown) ==
    LET p == [NoProbe EXCEPT !.startTime = t, !.promise = "pending"]
    IN  IF connectThrows
        THEN Reject([p EXCEPT !.sock = "idle"], "throw", thrown)
        ELSE [p EXCEPT !.sock = "connecting"]

\* The promise executor: new net.Socket(), setTimeout, the five handlers, then
\* connect(25, hostname), which either starts connecting or throws thrown
testSingleHost(t, connectThrows, thrown) ==
    LET p == [NoProbe EXCEPT !.startTime = t, !.timeoutArmed = 1,
                             !.promise = "pending"]
    IN  IF connectThrows
        THEN Reject([p EXCEPT !.sock = "idle"], "throw", thrown)
        ELSE [p EXCEPT !.sock = "connecting"]

----------------------------------------------------------------------------
(* checkPort25Connectivity *)

testTargets ==
    << [host |-> "mxshield.brandnav.io", priority |-> 1, provider |-> "BrandNav"],
       [host |-> "gmail-smtp-in.l.google.com", priority |-> 2, provider |-> "Google"],
       [host |-> "mx-biz.mail.am0.yahoodns.net", priority |-> 3, provider |-> "Yahoo"],
       [host |-> "mail.protection.outlook.com", priority |-> 4, provider |-> "Microsoft"],
       [host |-> "mx1.zoho.com", priority |-> 5, provider |-> "Zoho"] >>

Targets == 1..Len(testTargets)

NoReport ==
    [success |-> FALSE, port25Open |-> FALSE, canVerifyEmails |-> FALSE,
     testedHost |-> Null, provider |-> Null, attemptedHosts |-> <<>>,
     responseTime |-> NullTime, totalTime |-> NullTime, smtpBanner |-> NullText,
     error |-> Null, errors |-> <<>>, recommendation |-> NullText]

\* Mutant: the success report carries the accumulated errors
SuccessReport_WithErrors(target, result, hosts, t) ==
    [success |-> TRUE, port25Open |-> TRUE, canVerifyEmails |-> TRUE,
     testedHost |-> target.host, provider |-> target.provider,
     attemptedHosts |-> hosts,
     responseTime |-> result.responseTime, totalTime |-> t - checkStart,
     smtpBanner |-> result.banner,
     error |-> Null, errors |-> errors, recommendation |-> NullText]

\* Mutant: the success report names the first target, not the current one
SuccessReport_FirstTarget(target, result, hosts, t) ==
    [success |-> TRUE, port25Open |-> TRUE, canVerifyEmails |-> TRUE,
     testedHost |-> testTargets[1].host, provider |-> testTargets[1].provider,
     attemptedHosts |-> hosts,
     responseTime |-> result.responseTime, totalTime |-> t - checkStart,
     smtpBanner |-> result.banner,
     error |-> Null, errors |-> <<>>, recommendation |-> NullText]

\* The object returned from inside the try block (timestamp is not modelled)
SuccessReport(target, result, hosts, t) ==
    [success |-> TRUE, port25Open |-> TRUE, canVerifyEmails |-> TRUE,
     testedHost |-> target.host, provider |-> target.provider,
     attemptedHosts |-> hosts,
     responseTime |-> result.responseTime, totalTime |-> t - checkStart,
     smtpBanner |-> result.banner,
     error |-> Null, errors |-> <<>>, recommendation |-> NullText]

\* The entry the catch block pushes
ErrorEntry(target, classified) ==
    [host |-> target.host, provider |-> target.provider,
     error |-> classified.errorCode, reason |-> classified.reason,
     severity |-> classified.severity, blocked |-> classified.blocked]

\* Mutant: the last branch is the "unknown" text, chosen when no entry is unblocked
Recommendation_DnsFirst(errs) ==
    LET allBlocked == \A k \in 1..Len(errs) : errs[k].blocked = "true"
        someFalse == \E k \in 1..Len(errs) : errs[k].blocked = "false"
    IN  IF allBlocked THEN RecBlocked
        ELSE IF someFalse THEN RecDns
        ELSE RecUnknown

Recommendation(errs) ==
    LET allBlocked == \A k \in 1..Len(errs) : errs[k].blocked = "true"
        someUnknown == \E k \in 1..Len(errs) : errs[k].blocked = "unknown"
    IN  IF allBlocked THEN RecBlocked
        ELSE IF someUnknown THEN RecUnknown
        ELSE RecDns

\* Mutant: the failure report carries errors: [] like the success report
FailureReport_NoErrors(hosts, errs, t) ==
    [success |-> TRUE, port25Open |-> FALSE, canVerifyEmails |-> FALSE,
     testedHost |-> Null, provider |-> Null, attemptedHosts |-> hosts,
     responseTime |-> NullTime, totalTime |-> t - checkStart,
     smtpBanner |-> NullText,
     error |-> ErrAllFailed, errors |-> <<>>, recommendation |-> Recommendation(errs)]

\* Mutant: the failure report names the last host tried
FailureReport_NamesLastHost(hosts, errs, t) ==
    [success |-> TRUE, port25Open |-> FALSE, canVerifyEmails |-> FALSE,
     testedHost |-> hosts[Len(hosts)], provider |-> Null, attemptedHosts |-> hosts,
     responseTime |-> NullTime, totalTime |-> t - checkStart,
     smtpBanner |-> NullText,
     error |-> ErrAllFailed, errors |-> errs, recommendation |-> Recommendation(errs)]

\* Mutant: the failure report carries the total time as responseTime
FailureReport_KeepsTimes(hosts, errs, t) ==
    [success |-> TRUE, port25Open |-> FALSE, canVerifyEmails |-> FALSE,
     testedHost |-> Null, provider |-> Null, attemptedHosts |-> hosts,
     responseTime |-> t - checkStart, totalTime |-> t - checkStart,
     smtpBanner |-> NullText,
     error |-> ErrAllFailed, errors |-> errs, recommendation |-> Recommendation(errs)]

\* Mutant: the failure report has the envelope flag false
FailureReport_EnvelopeFalse(hosts, errs, t) ==
    [success |-> FALSE, port25Open |-> FALSE, canVerifyEmails |-> FALSE,
     testedHost |-> Null, provider |-> Null, attemptedHosts |-> hosts,
     responseTime |-> NullTime, totalTime |-> t - checkStart,
     smtpBanner |-> NullText,
     error |-> ErrAllFailed, errors |-> errs, recommendation |-> Recommendation(errs)]

\* Mutant: the failure report says emails can be verified and has no error text
FailureReport_CanVerify(hosts, errs, t) ==
    [success |-> TRUE, port25Open |-> FALSE, canVerifyEmails |-> TRUE,
     testedHost |-> Null, provider |-> Null, attemptedHosts |-> hosts,
     responseTime |-> NullTime, totalTime |-> t - checkStart,
     smtpBanner |-> NullText,
     error |-> Null, errors |-> errs, recommendation |-> Recommendation(errs)]

\* The object returned after the loop (timestamp is not modelled)
FailureReport(hosts, errs, t) ==
    [success |-> TRUE, port25Open |-> FALSE, canVerifyEmails |-> FALSE,
     testedHost |-> Null, provider |-> Null, attemptedHosts |-> hosts,
     responseTime |-> NullTime, totalTime |-> t - checkStart,
     smtpBanner |-> NullText,
     error |-> ErrAllFailed, errors |-> errs, recommendation |-> Recommendation(errs)]

----------------------------------------------------------------------------
(* The environment: what a net.Socket delivers *)

ChunkOk == <<"2","2","0"," ","o","k","\r","\n">>
ChunkOkLead == <<"\r","\n","2","2","0">>
ChunkErr == <<"5","0","0"," ","E","r","r","o","r","\r","\n">>
ChunkTimeoutText == <<"5","5","4"," ","t","i","m","e","o","u","t">>
ChunkBlank == <<" ","\r","\n">>
ChunkShort == <<"2","2">>
ChunkInner == <<"4","2","1"," ","2","2","0">>

\* First chunks a peer sends to a probe of checkPort25Connectivity
Chunks == {ChunkOk, ChunkErr, ChunkTimeoutText}

\* First chunks a peer sends to a direct call of testSingleHost
AllChunks == Chunks \cup {ChunkOkLead, ChunkBlank, ChunkShort, ChunkInner, <<>>}

MsgRefused == <<"c","o","n","n","e","c","t"," ","E","C","O","N","N","R","E","F","U","S","E","D">>
MsgNotFound == <<"g","e","t","a","d","d","r","i","n","f","o"," ","E","N","O","T","F","O","U","N","D">>
MsgReset == <<"r","e","a","d"," ","E","C","O","N","N","R","E","S","E","T">>
MsgBadArg == <<"I","n","v","a","l","i","d"," ","a","r","g","u","m","e","n","t">>

\* Errors a socket emits: system errors, which carry a code and a message
SocketErrors ==
    { MkError("ECONNREFUSED", MsgRefused),
      MkError("ENOTFOUND", MsgNotFound) }

AllSocketErrors ==
    SocketErrors \cup { MkError("ECONNRESET", MsgReset), MkError("ETIMEDOUT", MsgTimeout),
                        MkError(NoCode, <<>>) }

\* Errors connect() throws synchronously
ConnectErrors == { MkError("ERR_INVALID_ARG_VALUE", MsgBadArg) }

\* The awaited promise is settled: the continuation of checkPort25Connectivity is a
\* queued microtask, which runs before the event loop delivers another event
Runnable == pc = "await" /\ probes[idx].promise \in {"fulfilled", "rejected"}

\* The event loop runs the close callback of a destroyed socket before it polls
\* for I/O of the sockets created after it
Ready(i) ==
    /\ ~Runnable
    /\ \A k \in 1..(i - 1) : probes[k].sock # "destroyed"

\* The await of call i has returned or thrown
Consumed(i) == pc \in {"done", "threw"} \/ (pc = "await" /\ i < idx)

\* Once the await has taken the settlement nothing reads the variables of the
\* closure of that call any more: only the life cycle of its socket goes on
Dropped(p) ==
    [NoProbe EXCEPT !.sock = p.sock, !.timeoutArmed = p.timeoutArmed,
                    !.promise = p.promise, !.value = p.value]

Kept(i, p) == IF Consumed(i) THEN Dropped(p) ELSE p

----------------------------------------------------------------------------
(* Actions *)

Init ==
    /\ pc = "start"
    /\ idx = 1
    /\ attemptedHosts = <<>>
    /\ errors = <<>>
    /\ now = 0
    /\ checkStart = 0
    /\ probes = [i \in Targets |-> NoProbe]
    /\ report = NoReport
    /\ rawError = NoError
    /\ outcomes = <<>>
    /\ DashboardIdle

\* Time passes.  The code uses differences of Date.now() only: the clock is at 0
\* when checkPort25Connectivity is called.
Tick ==
    /\ pc # "start"
    /\ ~Runnable
    /\ now < MaxClock
    /\ now' = now + 1
    /\ UNCHANGED <<dashboard, rawError, outcomes, pc, idx, attemptedHosts, errors, checkStart, probes, report>>

\* attemptedHosts.push(target.host)
PushHost(hosts, host) == Append(hosts, host)

\* Mutant: a failure classified "unknown" ends the loop
LoopEnds_OnUnknown(k, classified) ==
    k >= Len(testTargets) \/ classified.blocked = "unknown"

\* The for...of loop has no further target after target k, whatever the
\* classification of its failure
LoopEnds(k, classified) == k >= Len(testTargets)

\* The largest number of calls of connect() that throw in one run
MaxThrows == 1

\* The number of entries of errs that a throwing connect() left
Thrown(errs) ==
    Cardinality({j \in 1..Len(errs) : \E e \in ConnectErrors : errs[j].error = e.code})

\* One loop iteration up to its await: push the host of target k and call
\* testSingleHost, whose connect() starts connecting or throws
BeginIteration(k, hosts, errs, ps) ==
    /\ attemptedHosts' = PushHost(hosts, testTargets[k].host)
    /\ \/ probes' = [ps EXCEPT ![k] = testSingleHost(now, FALSE, NoError)]
       \/ \E e \in ConnectErrors :
            /\ Thrown(errs) < MaxThrows
            /\ probes' = [ps EXCEPT ![k] = testSingleHost(now, TRUE, e)]
    /\ idx' = k
    /\ pc' = "await"

\* Mutant: the probes of all targets are started at once and awaited in turn
Call_Parallel ==
    /\ pc = "start"
    /\ checkStart' = now
    /\ errors' = <<>>
    /\ attemptedHosts' = PushHost(<<>>, testTargets[1].host)
    /\ probes' = [i \in Targets |-> testSingleHost(now, FALSE, NoError)]
    /\ idx' = 1
    /\ pc' = "await"
    /\ UNCHANGED <<dashboard, rawError, outcomes, report, now>>

\* checkPort25Connectivity() is called and runs to the await of the first iteration
Call ==
    /\ pc = "start"
    /\ checkStart' = now
    /\ errors' = <<>>
    /\ BeginIteration(1, <<>>, <<>>, probes)
    /\ UNCHANGED <<dashboard, rawError, outcomes, report, now>>

\* Mutant: the success report is built but the loop goes on to the next target
ResumeSuccess_NoReturn ==
    /\ pc = "await"
    /\ probes[idx].promise = "fulfilled"
    /\ report' = SuccessReport(testTargets[idx], probes[idx].value, attemptedHosts, now)
    /\ IF idx < Len(testTargets)
       THEN BeginIteration(idx + 1, attemptedHosts, errors, [probes EXCEPT ![idx] = Dropped(@)])
       ELSE /\ pc' = "done"
            /\ probes' = [probes EXCEPT ![idx] = Dropped(@)]
            /\ UNCHANGED <<idx, attemptedHosts>>
    /\ UNCHANGED <<dashboard, rawError, outcomes, errors, checkStart, now>>

\* The await returns a result: build the success report and return it
ResumeSuccess ==
    /\ pc = "await"
    /\ probes[idx].promise = "fulfilled"
    /\ report' = SuccessReport(testTargets[idx], probes[idx].value, attemptedHosts, now)
    /\ pc' = "done"
    /\ probes' = [probes EXCEPT ![idx] = Dropped(@)]
    /\ UNCHANGED <<dashboard, rawError, outcomes, idx, attemptedHosts, errors, checkStart, now>>

\* The await throws: the catch block, then the next iteration up to its await, or
\* after the last target the code after the loop
ResumeFailure ==
    /\ pc = "await"
    /\ probes[idx].promise = "rejected"
    /\ IF ClassifyThrows(probes[idx].reason)
       THEN /\ pc' = "threw"
            /\ probes' = [probes EXCEPT ![idx] = Dropped(@)]
            /\ UNCHANGED <<idx, attemptedHosts, errors, report>>
       ELSE LET classified == classifyPort25Error(probes[idx].reason)
                errs == Append(errors, ErrorEntry(testTargets[idx], classified))
                ps == [probes EXCEPT ![idx] = Dropped(@)]
            IN  /\ errors' = errs
                /\ IF LoopEnds(idx, classified)
                   THEN /\ report' = FailureReport(attemptedHosts, errs, now)
                        /\ pc' = "done"
                        /\ probes' = ps
                        /\ UNCHANGED <<idx, attemptedHosts>>
                   ELSE /\ BeginIteration(idx + 1, attemptedHosts, errs, ps)
                        /\ UNCHANGED report
    /\ UNCHANGED <<dashboard, rawError, outcomes, checkStart, now>>

Frame == UNCHANGED <<dashboard, rawError, outcomes, pc, idx, attemptedHosts, errors, checkStart, report, now>>

\* 'connect'
SocketConnect(i) ==
    /\ Ready(i)
    /\ probes[i].sock = "connecting"
    /\ probes' = [probes EXCEPT ![i] = Kept(i, OnConnect([@ EXCEPT !.sock = "connected"]))]
    /\ Frame

\* Mutant: a socket that delivers a chunk while it is still connecting
SocketData_Early(i, data) ==
    /\ Ready(i)
    /\ probes[i].sock \in {"connecting", "connected"}
    /\ probes' = [probes EXCEPT ![i] =
                    Kept(i, OnData([@ EXCEPT !.delivered = Append(@, data)], data, now))]
    /\ Frame

\* 'data': the peer's first chunk
SocketData(i, data) ==
    /\ Ready(i)
    /\ probes[i].sock = "connected"
    /\ probes' = [probes EXCEPT ![i] =
                    Kept(i, OnData([@ EXCEPT !.delivered = Append(@, data)], data, now))]
    /\ Frame

\* 'timeout': the timer armed by setTimeout expires
SocketTimeout(i) ==
    /\ Ready(i)
    /\ probes[i].sock \in {"connecting", "connected", "idle"}
    /\ probes[i].timeoutArmed > 0
    /\ probes' = [probes EXCEPT ![i] = Kept(i, OnTimeout(@))]
    /\ Frame

\* 'error': the socket fails and is destroyed with the error
SocketError(i, e) ==
    /\ Ready(i)
    /\ probes[i].sock \in {"connecting", "connected"}
    /\ probes' = [probes EXCEPT ![i] = Kept(i, OnError([@ EXCEPT !.sock = "destroyed"], e))]
    /\ Frame

\* 'close' of a connection the peer ended
PeerClose(i) ==
    /\ Ready(i)
    /\ probes[i].sock = "connected"
    /\ probes' = [probes EXCEPT ![i] = Kept(i, OnClose([@ EXCEPT !.sock = "closed"]))]
    /\ Frame

\* 'close' of a destroyed socket
SocketClose(i) ==
    /\ ~Runnable
    /\ probes[i].sock = "destroyed"
    /\ probes' = [probes EXCEPT ![i] = Kept(i, OnClose([@ EXCEPT !.sock = "closed"]))]
    /\ Frame

Next ==
    \/ Tick
    \/ Call
    \/ ResumeSuccess
    \/ ResumeFailure
    \/ \E i \in Targets : SocketConnect(i)
    \/ \E i \in Targets, data \in Chunks : SocketData(i, data)
    \/ \E i \in Targets : SocketTimeout(i)
    \/ \E i \in Targets, e \in SocketErrors : SocketError(i, e)
    \/ \E i \in Targets : PeerClose(i)
    \/ \E i \in Targets : SocketClose(i)

\* One run of checkPort25Connectivity
Spec == Init /\ [][Next]_vars

\* The scheduling the run time guarantees: called code runs, a queued continuation
\* runs, the timer armed by setTimeout expires unless the socket is destroyed
\* first, and a destroyed socket emits 'close'.  Nothing is assumed of the peer.
Fairness ==
    /\ WF_vars(Call)
    /\ WF_vars(ResumeSuccess)
    /\ WF_vars(ResumeFailure)
    /\ \A i \in Targets : WF_vars(SocketTimeout(i))
    /\ \A i \in Targets : WF_vars(SocketClose(i))

\* The run with the clock standing still (no step of the code compares times) and
\* one chunk or error of each kind
LiveNext ==
    \/ Call
    \/ ResumeSuccess
    \/ ResumeFailure
    \/ \E i \in Targets : SocketConnect(i)
    \/ \E i \in Targets, data \in {ChunkOk, ChunkErr} : SocketData(i, data)
    \/ \E i \in Targets : SocketTimeout(i)
    \/ \E i \in Targets, e \in {MkError("ECONNREFUSED", MsgRefused)} : SocketError(i, e)
    \/ \E i \in Targets : PeerClose(i)
    \/ \E i \in Targets : SocketClose(i)

LiveSpec == Init /\ [][LiveNext]_vars /\ Fairness

----------------------------------------------------------------------------
(* A direct call of testSingleHost (it is exported), with every chunk and error *)

ProbeInit ==
    /\ pc = "direct"
    /\ idx = 1
    /\ attemptedHosts = <<>>
    /\ errors = <<>>
    /\ now \in 0..MaxClock
    /\ checkStart = 0
    /\ report = NoReport
    /\ rawError = NoError
    /\ outcomes = <<>>
    /\ DashboardIdle
    /\ \/ probes = [i \in Targets |->
                      IF i = 1 THEN testSingleHost(now, FALSE, NoError) ELSE NoProbe]
       \/ \E e \in ConnectErrors :
            probes = [i \in Targets |->
                        IF i = 1 THEN testSingleHost(now, TRUE, e) ELSE NoProbe]

ProbeNext ==
    \/ Tick
    \/ SocketConnect(1)
    \/ \E data \in AllChunks : SocketData(1, data)
    \/ SocketTimeout(1)
    \/ \E e \in AllSocketErrors : SocketError(1, e)
    \/ PeerClose(1)
    \/ SocketClose(1)

ProbeSpec == ProbeInit /\ [][ProbeNext]_vars

----------------------------------------------------------------------------
(* testSingleHost on a socket that emits its events in any order, as the   *)
(* mocked net.Socket of the test suite lets them come: connect() and       *)
(* destroy() of the mock do nothing, and every registered handler may be   *)
(* invoked at any time                                                     *)

\* The number of resolve/reject calls after which the mock emits nothing more
MaxMockCalls == 2

MockInit ==
    /\ pc = "mock"
    /\ idx = 1
    /\ attemptedHosts = <<>>
    /\ errors = <<>>
    /\ now = 0
    /\ checkStart = 0
    /\ report = NoReport
    /\ rawError = NoError
    /\ outcomes = <<>>
    /\ DashboardIdle
    /\ probes = [i \in Targets |->
                   IF i = 1 THEN testSingleHost(now, FALSE, NoError) ELSE NoProbe]

MockEmits == pc = "mock" /\ probes[1].settleCalls < MaxMockCalls

MockConnect ==
    /\ MockEmits
    /\ probes' = [probes EXCEPT ![1] = OnConnect(@)]
    /\ Frame

MockData(data) ==
    /\ MockEmits
    /\ probes' = [probes EXCEPT ![1] =
                    OnData([@ EXCEPT !.delivered = Append(@, data)], data, now)]
    /\ Frame

MockTimeout ==
    /\ MockEmits
    /\ probes' = [probes EXCEPT ![1] = OnTimeout(@)]
    /\ Frame

MockError(e) ==
    /\ MockEmits
    /\ probes' = [probes EXCEPT ![1] = OnError(@, e)]
    /\ Frame

MockClose ==
    /\ MockEmits
    /\ probes' = [probes EXCEPT ![1] = OnClose([@ EXCEPT !.sock = "closed"])]
    /\ Frame

MockNext ==
    \/ Tick
    \/ MockConnect
    \/ \E data \in Chunks : MockData(data)
    \/ MockTimeout
    \/ \E e \in SocketErrors : MockError(e)
    \/ MockClose

MockSpec == MockInit /\ [][MockNext]_vars

----------------------------------------------------------------------------
(* classifyPort25Error called directly, as the module exports it *)

MsgCapitalTimeout == <<"T","i","m","e","o","u","t">>
MsgDnsTimeout == <<"D","N","S"," ","l","o","o","k","u","p"," ","t","i","m","e","o","u","t">>
MsgOther == <<"S","o","m","e","t","h","i","n","g"," ","w","e","n","t"," ","w","r","o","n","g">>

\* error.code of the caller's value: absent, empty, the codes the rules name, others
Codes ==
    { NoCode, "", "ECONNREFUSED", "ETIMEDOUT", "ENETUNREACH", "EHOSTUNREACH",
      "ENOTFOUND", "EADDRINUSE", "ECONNRESET", "UNKNOWN_ERROR" }

\* error.message of the caller's value, when it has one
Messages == { <<>>, MsgTimeout, MsgCapitalTimeout, MsgDnsTimeout, MsgNotFound, MsgOther }

\* The values a caller passes: with a message, and without a message property
RawErrors ==
    { MkError(c, m) : c \in Codes, m \in Messages }
        \cup { [code |-> c, hasMessage |-> FALSE, message |-> <<>>] : c \in Codes }

NoClassified ==
    [blocked |-> Null, reason |-> NullText, severity |-> Null, errorCode |-> NoCode]

\* One call: the returned object, or the TypeError raised by errorMessage.includes
CallClassify(error) ==
    IF ClassifyThrows(error)
    THEN [threw |-> TRUE, value |-> NoClassified]
    ELSE [threw |-> FALSE, value |-> classifyPort25Error(error)]

\* The number of calls made with the same value
MaxCalls == 2

ClassifyInit ==
    /\ pc = "classify"
    /\ idx = 1
    /\ attemptedHosts = <<>>
    /\ errors = <<>>
    /\ now = 0
    /\ checkStart = 0
    /\ probes = [i \in Targets |-> NoProbe]
    /\ report = NoReport
    /\ rawError \in RawErrors
    /\ outcomes = <<>>
    /\ DashboardIdle

\* classifyPort25Error(rawError): reads its argument only, assigns nothing
ClassifyCall ==
    /\ pc = "classify"
    /\ Len(outcomes) < MaxCalls
    /\ outcomes' = Append(outcomes, CallClassify(rawError))
    /\ UNCHANGED <<pc, idx, attemptedHosts, errors, checkStart, probes, report, now,
                   rawError, dashboard>>

ClassifyNext == ClassifyCall

ClassifySpec == ClassifyInit /\ [][ClassifyNext]_vars

----------------------------------------------------------------------------
(* DashboardLayout: the consumer of the check.  checkPort25Status runs on     *)
(* mount and on a click on the badge, which is disabled while a check runs;   *)
(* the state updates made between two awaits are rendered together.           *)

\* What verificationApi.checkPort25() resolves with: the fields the dashboard reads
ApiResults ==
    { [port25Open |-> TRUE, recommendation |-> NullText] }
        \cup { [port25Open |-> FALSE, recommendation |-> r] :
                  r \in {RecBlocked, RecUnknown, RecDns} }

\* if (result.recommendation): null and '' are falsy
Truthy(text) == text # NullText /\ text # <<>>

\* The variables of the engine, which the dashboard does not touch
engine ==
    <<pc, idx, attemptedHosts, errors, checkStart, probes, report, now,
      rawError, outcomes>>

DashInit ==
    /\ pc = "dashboard"
    /\ idx = 1
    /\ attemptedHosts = <<>>
    /\ errors = <<>>
    /\ now = 0
    /\ checkStart = 0
    /\ probes = [i \in Targets |-> NoProbe]
    /\ report = NoReport
    /\ rawError = NoError
    /\ outcomes = <<>>
    /\ DashboardIdle

\* The number of checks of one visit of the dashboard
MaxChecks == 5

\* checkPort25Status up to its await
StartCheck ==
    /\ checks < MaxChecks
    /\ checks' = checks + 1
    /\ isCheckingPort25' = TRUE
    /\ port25Status' = "checking"
    /\ UNCHANGED <<showWarningBanner, warningMessage, lastCheck, dismissedSince>>

\* useEffect(() => { checkPort25Status(); }, [])
Mount ==
    /\ pc = "dashboard"
    /\ ~mounted
    /\ mounted' = TRUE
    /\ StartCheck
    /\ UNCHANGED engine

\* A click on the badge: onClick={checkPort25Status}, disabled={isCheckingPort25}
ClickBadge ==
    /\ pc = "dashboard"
    /\ mounted
    /\ ~isCheckingPort25
    /\ StartCheck
    /\ UNCHANGED <<mounted, engine>>

\* Mutant: an open result leaves the banner as it is
CheckResolves_KeepsBanner(result) ==
    /\ pc = "dashboard"
    /\ isCheckingPort25
    /\ IF result.port25Open
       THEN /\ port25Status' = "open"
            /\ UNCHANGED <<showWarningBanner, warningMessage>>
       ELSE /\ port25Status' = "closed"
            /\ IF Truthy(result.recommendation)
               THEN /\ warningMessage' = result.recommendation
                    /\ showWarningBanner' = TRUE
               ELSE UNCHANGED <<showWarningBanner, warningMessage>>
    /\ isCheckingPort25' = FALSE
    /\ lastCheck' = IF result.port25Open THEN "open" ELSE "closed"
    /\ dismissedSince' = FALSE
    /\ UNCHANGED <<mounted, checks, engine>>

\* The await returns result: the rest of the try block, then finally
CheckResolves(result) ==
    /\ pc = "dashboard"
    /\ isCheckingPort25
    /\ IF result.port25Open
       THEN /\ port25Status' = "open"
            /\ showWarningBanner' = FALSE
            /\ UNCHANGED warningMessage
       ELSE /\ port25Status' = "closed"
            /\ IF Truthy(result.recommendation)
               THEN /\ warningMessage' = result.recommendation
                    /\ showWarningBanner' = TRUE
               ELSE UNCHANGED <<showWarningBanner, warningMessage>>
    /\ isCheckingPort25' = FALSE
    /\ lastCheck' = IF result.port25Open THEN "open" ELSE "closed"
    /\ dismissedSince' = FALSE
    /\ UNCHANGED <<mounted, checks, engine>>

\* The await throws: the catch block, then finally
CheckFails ==
    /\ pc = "dashboard"
    /\ isCheckingPort25
    /\ port25Status' = "unknown"
    /\ showWarningBanner' = FALSE
    /\ isCheckingPort25' = FALSE
    /\ lastCheck' = "failed"
    /\ dismissedSince' = FALSE
    /\ UNCHANGED <<mounted, checks, warningMessage, engine>>

\* handleDismissWarning, reachable from the banner's button while it is shown
DismissWarning ==
    /\ pc = "dashboard"
    /\ showWarningBanner
    /\ showWarningBanner' = FALSE
    /\ dismissedSince' = TRUE
    /\ UNCHANGED <<mounted, port25Status, isCheckingPort25, warningMessage, lastCheck,
                   checks, engine>>

DashNext ==
    \/ Mount
    \/ ClickBadge
    \/ \E result \in ApiResults : CheckResolves(result)
    \/ CheckFails
    \/ DismissWarning

DashSpec == DashInit /\ [][DashNext]_vars

----------------------------------------------------------------------------
(* Properties *)

Settled(p) == p.promise \in {"fulfilled", "rejected"}

\* The hosts of the first k targets, in priority order
Hosts(k) == [j \in 1..k |-> testTargets[j].host]

Done == pc = "done"

\* C1: checkPort25Connectivity never fails: whatever the probes' outcomes, no
\* exception leaves the catch block (the run never ends in "threw"), and the value
\* it returns is a populated report: the envelope flag is set, the attempted hosts
\* are listed, the total time is a number, and the report is either the success
\* form or the failure form.
C1_NeverFails ==
    /\ pc # "threw"
    /\ Done =>
         /\ report.success
         /\ report.attemptedHosts # <<>>
         /\ report.totalTime >= 0
         /\ report.canVerifyEmails = report.port25Open
         /\ \/ report.port25Open /\ report.testedHost # Null
            \/ ~report.port25Open /\ report.error = ErrAllFailed
                 /\ report.recommendation \in {RecBlocked, RecUnknown, RecDns}

\* C1 witness: a report returned after a coded socket error, a timeout (an error
\* without a code), an invalid banner, a close without banner and a throwing connect()
C1_Witness ==
    /\ Done
    /\ ~report.port25Open
    /\ \E a, b, c, d, e \in 1..Len(report.errors) :
         /\ report.errors[a].error = "ECONNREFUSED"
         /\ report.errors[b].error = "TIMEOUT"
         /\ report.errors[c].reason = MsgInvalidPrefix \o Trim(ChunkErr)
         /\ report.errors[d].reason = MsgClosed
         /\ report.errors[e].error = "ERR_INVALID_ARG_VALUE"

\* C2: short-circuit: once the probe of a target has succeeded no socket exists for
\* any later target, and if the first target succeeded attemptedHosts, in the run
\* and in the report, is exactly the first target's host.
C2_ShortCircuit ==
    /\ \A i \in Targets : probes[i].promise = "fulfilled" =>
         \A j \in (i + 1)..Len(testTargets) : probes[j].sock = "none"
    /\ probes[1].promise = "fulfilled" =>
         /\ attemptedHosts = <<testTargets[1].host>>
         /\ Done => report.attemptedHosts = <<testTargets[1].host>>

\* C2 witness: the first target succeeded and the report was returned
C2_Witness ==
    /\ Done
    /\ probes[1].promise = "fulfilled"
    /\ report.port25Open

\* C3: attemptedHosts is at every point a prefix of the target list in priority
\* order; in the returned report it ends at the first host whose probe succeeded,
\* or holds all five hosts after five failures.
C3_AttemptedPrefix ==
    /\ \E k \in 0..Len(testTargets) : attemptedHosts = Hosts(k)
    /\ Done =>
         \E k \in Targets :
           /\ report.attemptedHosts = Hosts(k)
           /\ \A j \in 1..(k - 1) : probes[j].promise = "rejected"
           /\ \/ report.port25Open /\ probes[k].promise = "fulfilled"
              \/ ~report.port25Open /\ probes[k].promise = "rejected"
                   /\ k = Len(testTargets)

\* C3 witness: all five hosts attempted although the first failure was
\* classified "unknown"
C3_Witness ==
    /\ Done
    /\ Len(report.attemptedHosts) = Len(testTargets)
    /\ Len(report.errors) = Len(testTargets)
    /\ report.errors[1].blocked = "unknown"
    /\ report.errors[2].blocked = "false"

\* C4: on every path on which a probe settles by a valid banner, an invalid banner,
\* a timeout or a socket error, socket.destroy() has been invoked exactly once,
\* from the moment it settles to the end of the socket's life.
C4_DestroyOnce ==
    \A i \in Targets :
      probes[i].settledBy \in {"banner", "invalid", "timeout", "error"} =>
        probes[i].destroyCalls = 1

\* C4 witness: a probe that settled by its timeout after the connect event, whose
\* socket has emitted 'close'
C4_Witness ==
    /\ probes[1].settledBy = "timeout"
    /\ probes[1].connected
    /\ probes[1].sock = "closed"
    /\ probes[1].destroyCalls = 1

\* C5: every testSingleHost call eventually settles, the socket's timer being the
\* event that is certain to come, and so every run of checkPort25Connectivity
\* eventually returns its report, having attempted at most five hosts.
C5_EventuallyReturns ==
    /\ \A i \in Targets : (probes[i].promise = "pending") ~> Settled(probes[i])
    /\ <>Done
    /\ [](Len(attemptedHosts) <= Len(testTargets))

\* C5 witness: the report returned after the timers of five probes expired, some
\* before and some after the connect event
C5_Witness ==
    /\ Done
    /\ Len(report.errors) = Len(testTargets)
    /\ \A k \in 1..Len(report.errors) : report.errors[k].error = "TIMEOUT"

\* C6: probes are strictly sequential: at most one probe is unsettled at any time,
\* and the probe of a target exists only when the probe of the target before it
\* has settled.
C6_Sequential ==
    /\ Cardinality({i \in Targets : probes[i].promise = "pending"}) <= 1
    /\ \A i \in 1..(Len(testTargets) - 1) :
         probes[i + 1].sock # "none" => Settled(probes[i])

\* C6 witness: the third probe is in flight while the socket of the second, whose
\* probe failed, has not yet emitted 'close'
C6_Witness ==
    /\ probes[3].promise = "pending"
    /\ probes[2].promise = "rejected"
    /\ probes[2].sock = "destroyed"

\* C7: a direct testSingleHost call resolves, with success = true and the trimmed
\* chunk as banner, exactly when the first chunk the socket delivers starts with
\* "220" once trimmed; a first chunk that does not makes it reject with the code-less
\* error "Invalid SMTP banner received: <trimmed chunk>"; no second chunk is delivered.
C7_BannerDecides ==
    LET p == probes[1]
        first == Trim(p.delivered[1])
    IN  /\ p.promise = "fulfilled" <=>
             (p.delivered # <<>> /\ StartsWith(first, BannerPrefix))
        /\ p.promise = "fulfilled" =>
             /\ p.value.success
             /\ p.value.banner = first
             /\ SubSeq(p.value.banner, 1, 3) = <<"2", "2", "0">>
        /\ (p.delivered # <<>> /\ ~StartsWith(first, BannerPrefix)) =>
             /\ p.promise = "rejected"
             /\ p.reason = MkError(NoCode, MsgInvalidPrefix \o first)
        /\ Len(p.delivered) <= 1

\* C7 witness: a call resolved by a chunk that starts with "220" only once trimmed
C7_Witness ==
    /\ probes[1].promise = "fulfilled"
    /\ probes[1].delivered = <<ChunkOkLead>>
    /\ probes[1].value.banner = <<"2", "2", "0">>

\* The targets whose probe failed and whose failure the catch block has handled
Caught == {i \in Targets : Consumed(i) /\ probes[i].promise = "rejected"}

\* C8 as claimed: every returned report has one perHostErrors entry per attempted
\* host whose probe failed.
C8_Original ==
    Done => Len(report.errors) = Cardinality({i \in Targets : probes[i].promise = "rejected"})

\* C8 as amended: the errors list of the run has exactly one entry per failed
\* attempted host, in attempt order; a failure report returns that list, with its
\* five entries, and a success report returns an empty list instead.
C8_Amended ==
    /\ Len(errors) = Cardinality(Caught)
    /\ \A k \in 1..Len(errors) :
         /\ k \in Caught
         /\ errors[k].host = attemptedHosts[k]
         /\ errors[k].provider = testTargets[k].provider
    /\ Done =>
         IF report.port25Open
         THEN report.errors = <<>>
         ELSE /\ report.errors = errors
              /\ Len(report.errors) = Len(testTargets)
              /\ Len(report.errors) = Len(report.attemptedHosts)

\* C8 witness: target 1 failed, target 2 succeeded, and the report has no entry
C8_Witness ==
    /\ Done
    /\ report.port25Open
    /\ Len(report.attemptedHosts) = 2
    /\ Len(errors) = 1
    /\ Len(report.errors) = 0

\* C9: every success report has perHostErrors empty, error null and recommendation
\* null, also when earlier targets failed.
C9_SuccessHasNoErrors ==
    (Done /\ report.port25Open) =>
        /\ report.errors = <<>>
        /\ report.error = Null
        /\ report.recommendation = NullText

\* C9 witness: a success report after a refused first target and a second failure
C9_Witness ==
    /\ Done
    /\ report.port25Open
    /\ Len(report.attemptedHosts) = 3
    /\ errors[1].error = "ECONNREFUSED"
    /\ Len(errors) = 2

\* C10: in a success report testedHost is the last attempted host and the host of
\* the first target whose probe succeeded, provider is that target's label,
\* smtpBanner and responseTime are those of that probe's result, and the k-1
\* targets before it all failed.
C10_SuccessFields ==
    (Done /\ report.port25Open) =>
        LET k == Len(report.attemptedHosts)
        IN  /\ k \in Targets
            /\ report.testedHost = report.attemptedHosts[k]
            /\ report.testedHost = testTargets[k].host
            /\ report.provider = testTargets[k].provider
            /\ probes[k].promise = "fulfilled"
            /\ \A j \in 1..(k - 1) : probes[j].promise = "rejected"
            /\ report.smtpBanner = probes[k].value.banner
            /\ report.responseTime = probes[k].value.responseTime
            /\ report.responseTime >= 0

\* C10 witness: targets 1 to 3 failed, target 4 answered "220 ok" one tick after
\* its probe started
C10_Witness ==
    /\ Done
    /\ report.port25Open
    /\ Len(report.attemptedHosts) = 4
    /\ report.testedHost = "mail.protection.outlook.com"
    /\ report.provider = "Microsoft"
    /\ report.responseTime = 1
    /\ report.smtpBanner = Trim(ChunkOk)

\* C11: in every returned report testedHost and provider are both non-null exactly
\* when success and port25Open are both true; in the other reports both are null.
C11_TestedHostIffOpen ==
    Done =>
        /\ (report.testedHost # Null /\ report.provider # Null)
               <=> (report.success /\ report.port25Open)
        /\ ~(report.success /\ report.port25Open) =>
               (report.testedHost = Null /\ report.provider = Null)

\* C11 witness: a failure report, with both fields null, and the envelope flag set
C11_Witness ==
    /\ Done
    /\ report.success /\ ~report.port25Open
    /\ report.testedHost = Null /\ report.provider = Null

\* The blocked values of the entries of a list of errors
BlockedValues(errs) == {errs[k].blocked : k \in 1..Len(errs)}

\* C12: in a failure report the recommendation follows from the blocked values of
\* perHostErrors: all true gives the "Port 25 is blocked" text, else any "unknown"
\* gives the "Unable to determine" text, else the "DNS or network issues" text;
\* five name-not-found failures give the "DNS or network issues" text.
C12_RecommendationPrecedence ==
    (Done /\ ~report.port25Open) =>
        LET b == BlockedValues(report.errors)
        IN  /\ b = {"true"} => report.recommendation = RecBlocked
            /\ (b # {"true"} /\ "unknown" \in b) => report.recommendation = RecUnknown
            /\ (b # {"true"} /\ "unknown" \notin b) => report.recommendation = RecDns
            /\ (\A k \in 1..Len(report.errors) : report.errors[k].error = "ENOTFOUND")
                  => report.recommendation = RecDns

\* C12 witness: a failure report whose entries are blocked, unblocked and unknown
C12_Witness ==
    /\ Done
    /\ ~report.port25Open
    /\ BlockedValues(report.errors) = {"true", "false", "unknown"}
    /\ report.recommendation = RecUnknown

\* C13: a failure report is returned exactly when the probes of all five targets
\* failed; its fields are those of the failure form, with five attempted hosts and
\* five entries; after five refused connections the recommendation contains
\* "Port 25 is blocked" and every entry has blocked = true.
C13_FailureReport ==
    Done =>
        /\ ~report.port25Open <=> \A i \in Targets : probes[i].promise = "rejected"
        /\ ~report.port25Open =>
              /\ ~report.canVerifyEmails
              /\ report.testedHost = Null /\ report.provider = Null
              /\ report.responseTime = NullTime
              /\ report.smtpBanner = NullText
              /\ report.error = ErrAllFailed
              /\ Len(report.attemptedHosts) = 5
              /\ Len(report.errors) = 5
              /\ (\A k \in 1..5 : report.errors[k].error = "ECONNREFUSED") =>
                    /\ Includes(report.recommendation, NeedleBlocked)
                    /\ \A k \in 1..5 : report.errors[k].blocked = "true"

\* C13 witness: the report after five refused connections, the clock having advanced
C13_Witness ==
    /\ Done
    /\ \A k \in 1..Len(testTargets) :
         Len(report.errors) >= k /\ report.errors[k].error = "ECONNREFUSED"
    /\ report.totalTime > 0
    /\ report.responseTime = NullTime

\* C18: the envelope flag success is true in every returned report, after a
\* success and after five failures.
C18_EnvelopeTrue ==
    Done => report.success

\* C18 witness: a failure report with the flag set, produced although a connect()
\* call threw
C18_Witness ==
    /\ Done
    /\ ~report.port25Open
    /\ report.success
    /\ \E k \in 1..Len(report.errors) : report.errors[k].error = "ERR_INVALID_ARG_VALUE"

\* A code is absent when it is undefined or the empty string
Absent(code) == code \in {NoCode, ""}

\* The message contains "timeout" (a value without a message contains nothing)
SaysTimeout(e) == e.hasMessage /\ Includes(e.message, NeedleTimeout)

\* The row of the rule table that matches first: blocked, severity and errorCode
FirstRow(e) ==
    IF e.code = "ECONNREFUSED"
    THEN [blocked |-> "true", severity |-> "high", errorCode |-> e.code]
    ELSE IF e.code = "ETIMEDOUT" \/ SaysTimeout(e)
    THEN [blocked |-> "true", severity |-> "medium",
          errorCode |-> IF Absent(e.code) THEN "TIMEOUT" ELSE e.code]
    ELSE IF e.code \in {"ENETUNREACH", "EHOSTUNREACH"}
    THEN [blocked |-> "true", severity |-> "high", errorCode |-> e.code]
    ELSE IF e.code = "ENOTFOUND"
    THEN [blocked |-> "false", severity |-> "low", errorCode |-> e.code]
    ELSE IF e.code = "EADDRINUSE"
    THEN [blocked |-> "false", severity |-> "low", errorCode |-> e.code]
    ELSE [blocked |-> "unknown", severity |-> "medium",
          errorCode |-> IF Absent(e.code) THEN "UNKNOWN" ELSE e.code]

\* C14: every call of classifyPort25Error that returns gives the blocked, severity
\* and errorCode of the first row that matches in the order refused, timeout (code
\* ETIMEDOUT or message containing "timeout"), unreachable, name-not-found,
\* address-in-use, default; a value with a message always returns.
C14_FirstMatchWins ==
    \A k \in 1..Len(outcomes) :
      /\ rawError.hasMessage => ~outcomes[k].threw
      /\ ~outcomes[k].threw =>
           /\ outcomes[k].value.blocked = FirstRow(rawError).blocked
           /\ outcomes[k].value.severity = FirstRow(rawError).severity
           /\ outcomes[k].value.errorCode = FirstRow(rawError).errorCode

\* C14 witness: an address-in-use error whose message contains "timeout" has been
\* classified by the timeout row, which comes first
C14_Witness ==
    /\ Len(outcomes) >= 1
    /\ rawError = MkError("EADDRINUSE", MsgDnsTimeout)
    /\ outcomes[1].value.severity = "medium"
    /\ outcomes[1].value.errorCode = "EADDRINUSE"

Recognized ==
    {"ECONNREFUSED", "ETIMEDOUT", "ENETUNREACH", "EHOSTUNREACH", "ENOTFOUND", "EADDRINUSE"}

\* C16 as claimed: every error whose code is not a recognized one, whatever the
\* text of its message, is classified blocked = "unknown", severity medium.
C16_Original ==
    \A k \in 1..Len(outcomes) :
      (rawError.code \notin Recognized /\ rawError.hasMessage) =>
        /\ ~outcomes[k].threw
        /\ outcomes[k].value.blocked = "unknown"
        /\ outcomes[k].value.severity = "medium"

\* C16 as amended: an error whose code is not a recognized one is classified with
\* severity medium, and blocked = "unknown" when its message is a string without
\* "timeout", blocked = true when the message contains "timeout"; without a
\* message the call throws.
C16_Amended ==
    \A k \in 1..Len(outcomes) :
      rawError.code \notin Recognized =>
        IF ~rawError.hasMessage
        THEN outcomes[k].threw
        ELSE /\ ~outcomes[k].threw
             /\ outcomes[k].value.severity = "medium"
             /\ outcomes[k].value.blocked =
                  (IF SaysTimeout(rawError) THEN "true" ELSE "unknown")

\* C16 witness: a code-less "Connection timeout", as testSingleHost rejects with,
\* classified blocked = true with errorCode TIMEOUT
C16_Witness ==
    /\ Len(outcomes) >= 1
    /\ rawError = MkError(NoCode, MsgTimeout)
    /\ outcomes[1].value.blocked = "true"
    /\ outcomes[1].value.errorCode = "TIMEOUT"

\* C17 as claimed: classifyPort25Error is total and deterministic: every call, with
\* the code present or absent and the message present, empty or absent, returns
\* without throwing, calls on the same value return equal results, and no state
\* is written.
C17_TotalDeterministic ==
    /\ \A k \in 1..Len(outcomes) : ~outcomes[k].threw
    /\ \A j, k \in 1..Len(outcomes) : outcomes[j] = outcomes[k]
    /\ pc = "classify" =>
         (errors = <<>> /\ attemptedHosts = <<>> /\ report = NoReport)

\* The outcome of call i is the same before and after the step
SameOutcome(i) ==
    /\ probes'[i].promise = probes[i].promise
    /\ probes'[i].settledBy = probes[i].settledBy
    /\ probes'[i].value = probes[i].value
    /\ probes'[i].reason = probes[i].reason

\* C19 as claimed: once a testSingleHost call has settled, no later socket event
\* changes its outcome, calls resolve or reject again, or calls socket.destroy()
\* again.
C19_Original ==
    [][\A i \in Targets :
         Settled(probes[i]) =>
           /\ SameOutcome(i)
           /\ probes'[i].settleCalls = probes[i].settleCalls
           /\ probes[i].destroyCalls >= 1 =>
                probes'[i].destroyCalls = probes[i].destroyCalls]_vars

\* C19 as amended: the outcome of a call is that of the first handler to settle it
\* and no later socket event changes it, and socket.destroy() is called at most
\* once; but reject is called a second time, without effect, by the 'close' handler
\* when the call was settled by a timeout, an error or a blank chunk on a connected
\* socket, and by the 'timeout' handler when connect() had thrown.
C19_Amended ==
    [][\A i \in Targets :
         /\ (probes[i].promise = "pending" /\ probes'[i].settleCalls > probes[i].settleCalls)
               => (Settled(probes'[i]) /\ probes'[i].settleCalls = 1)
         /\ Settled(probes[i]) =>
              /\ SameOutcome(i)
              /\ probes'[i].destroyCalls <= 1
              /\ probes'[i].settleCalls <= 2
              /\ probes'[i].settleCalls > probes[i].settleCalls =>
                   \/ /\ probes'[i].sock = "closed"
                      /\ probes[i].connected /\ probes[i].smtpBanner = <<>>
                      /\ probes[i].settledBy \in {"timeout", "error", "invalid"}
                   \/ /\ probes[i].settledBy = "throw"
                      /\ probes'[i].sock = "destroyed"
                      /\ probes'[i].destroyCalls = 1]_vars

\* C19 witness: a call rejected by its timeout after the connect event, whose
\* 'close' handler has called reject a second time, the outcome still the timeout
C19_Witness ==
    /\ probes[1].settleCalls = 2
    /\ probes[1].settledBy = "timeout"
    /\ probes[1].reason = MkError(NoCode, MsgTimeout)
    /\ probes[1].sock = "closed"

\* The socket of call i emits its first 'close' in this step, no chunk having been
\* delivered and the call being unsettled (so no 'timeout' or 'error' handler has run)
ClosesSilently(i) ==
    /\ probes[i].sock # "closed"
    /\ probes'[i].sock = "closed"
    /\ probes[i].delivered = <<>>
    /\ probes[i].promise = "pending"

CloseBeforeConnectHasCause ==
    (probes[1].sock = "closed" /\ ~probes[1].connected) =>
        probes[1].settledBy \in {"timeout", "error", "throw"}

\* C21: when a socket error is the event that settles a probe, testSingleHost
\* rejects with that very error, code and message unchanged; and the entry the catch
\* block records for a host whose probe was rejected by a socket error is the
\* classification of that error (errorCode, reason, severity, blocked) with the
\* target's host and provider.
C21_RawErrorThenClassified ==
    [][/\ \A i \in Targets, e \in SocketErrors :
            (SocketError(i, e) /\ probes[i].promise = "pending") =>
               /\ probes'[i].promise = "rejected"
               /\ probes'[i].reason = e
       /\ (ResumeFailure /\ probes[idx].settledBy = "error") =>
            LET c == classifyPort25Error(probes[idx].reason)
            IN  /\ probes[idx].reason \in SocketErrors
                /\ errors' = Append(errors,
                                [host |-> testTargets[idx].host,
                                 provider |-> testTargets[idx].provider,
                                 error |-> c.errorCode, reason |-> c.reason,
                                 severity |-> c.severity, blocked |-> c.blocked])]_vars

\* C21 witness: the second target's socket failed with ENOTFOUND and its entry is the
\* name-not-found classification
C21_Witness ==
    /\ Len(errors) >= 2
    /\ errors[2] = [host |-> "gmail-smtp-in.l.google.com", provider |-> "Google",
                    error |-> "ENOTFOUND", reason |-> ReasonDns,
                    severity |-> "low", blocked |-> "false"]

\* C22: a probe settled by its own 'timeout' event is rejected with the code-less
\* error "Connection timeout", and the entry recorded for it has blocked = true,
\* severity medium and errorCode "TIMEOUT"; when the fifth target times out after
\* four entries of that kind the report's recommendation is the "Port 25 is
\* blocked" text.
C22_TimeoutIsBlocked ==
    [][/\ \A i \in Targets :
            (SocketTimeout(i) /\ probes[i].promise = "pending") =>
               /\ probes'[i].promise = "rejected"
               /\ probes'[i].reason = MkError(NoCode, MsgTimeout)
       /\ (ResumeFailure /\ probes[idx].settledBy = "timeout") =>
            /\ Len(errors') = Len(errors) + 1
            /\ errors'[Len(errors')].blocked = "true"
            /\ errors'[Len(errors')].severity = "medium"
            /\ errors'[Len(errors')].error = "TIMEOUT"
            /\ (/\ idx = Len(testTargets)
                /\ \A k \in 1..Len(errors) : errors[k].error = "TIMEOUT") =>
                  /\ pc' = "done"
                  /\ ~report'.port25Open
                  /\ report'.recommendation = RecBlocked]_vars

\* C22 witness: the failure report after the fifth target timed out without having
\* connected, all five entries being timeouts
C22_Witness ==
    /\ Done
    /\ ~report.port25Open
    /\ Len(report.errors) = 5
    /\ \A k \in 1..Len(report.errors) :
         /\ report.errors[k].error = "TIMEOUT"
         /\ report.errors[k].reason = ReasonTimeout
    /\ report.recommendation = RecBlocked
    /\ probes[5].sock \in {"destroyed", "closed"}

\* C23: the 'connect' event changes the connected flag and nothing else: the probe
\* stays unsettled, socket.destroy() is not called, nothing is written to the peer
\* and the timer is not armed again; the timer is armed exactly once per probe,
\* before connect() is called, and nothing is ever written.
C23_ConnectOnlySetsFlag ==
    /\ [][\A i \in Targets :
            SocketConnect(i) =>
              /\ probes'[i].connected
              /\ probes'[i] = [probes[i] EXCEPT !.connected = TRUE, !.sock = "connected"]
              /\ probes'[i].promise = "pending"
              /\ probes'[i].destroyCalls = 0
              /\ probes'[i].writeCalls = 0
              /\ probes'[i].timeoutArmed = 1]_vars
    /\ [](\A i \in Targets :
            /\ probes[i].sock # "none" => probes[i].timeoutArmed = 1
            /\ probes[i].writeCalls = 0)

\* C23 witness: a connected socket whose probe is pending, no destroy, no write, the
\* timer armed once, the clock having advanced since the call
C23_Witness ==
    /\ probes[1].sock = "connected"
    /\ probes[1].connected
    /\ probes[1].promise = "pending"
    /\ probes[1].destroyCalls = 0
    /\ probes[1].writeCalls = 0
    /\ probes[1].timeoutArmed = 1
    /\ now > probes[1].startTime

C24_OnAnySocket ==
    probes[1].promise = "fulfilled" => probes[1].connected

C26_FieldsConsistent ==
    Done =>
        /\ report.canVerifyEmails = report.port25Open
        /\ report.recommendation # NullText <=> ~report.port25Open
        /\ report.error # Null <=> ~report.port25Open
        /\ report.smtpBanner # NullText <=> report.port25Open
        /\ report.responseTime # NullTime <=> report.port25Open
        /\ report.attemptedHosts # <<>>
        /\ report.port25Open <=>
             probes[Len(report.attemptedHosts)].promise = "fulfilled"

\* C26 witness: a success report on the fifth host, answered within the same tick
C26_Witness ==
    /\ Done
    /\ report.port25Open /\ report.canVerifyEmails
    /\ Len(report.attemptedHosts) = 5
    /\ probes[5].promise = "fulfilled"
    /\ report.responseTime = 0
    /\ report.smtpBanner # NullText
    /\ report.error = Null /\ report.recommendation = NullText

\* C27 as claimed: the warning banner is visible only if the most recently
\* completed check reported port25Open = false and the banner has not been
\* dismissed since; and whenever the banner is visible the badge status is 'closed'.
C27_Original ==
    showWarningBanner =>
        /\ lastCheck = "closed"
        /\ ~dismissedSince
        /\ port25Status = "closed"

\* C27 as amended: the warning banner is visible only if the most recently
\* completed check reported port25Open = false and the banner has not been
\* dismissed since; a check that reports port25Open = true or that fails hides it;
\* while it is visible the badge status is 'closed', or 'checking' during a
\* re-check, which leaves the banner of the previous check on screen until it
\* completes.
C27_Amended ==
    /\ showWarningBanner =>
         /\ lastCheck = "closed"
         /\ ~dismissedSince
         /\ warningMessage \in {RecBlocked, RecUnknown, RecDns}
         /\ IF isCheckingPort25
            THEN port25Status = "checking"
            ELSE port25Status = "closed"
    /\ (~isCheckingPort25 /\ lastCheck \in {"open", "failed"}) =>
         /\ ~showWarningBanner
         /\ port25Status = (IF lastCheck = "open" THEN "open" ELSE "unknown")

\* C27 witness: a re-check is in flight, the badge says 'checking' and the banner
\* of the previous check is still shown
C27_Witness ==
    /\ showWarningBanner
    /\ isCheckingPort25
    /\ port25Status = "checking"
    /\ lastCheck = "closed"
    /\ checks = 2

====
